---- MODULE Spec2Model ----
(***************************************************************************)
(* Model of the scheduler/dispatcher of AI_Task_Scheduler:                *)
(* celery_worker/app/tasks/scheduler.py (dispatch_periodic_tasks), the     *)
(* beat schedule that starts it, the session factory it uses and the Task  *)
(* table it reads and updates.                                             *)
(*                                                                         *)
(* Time is in seconds since 2025-01-01T00:00:00 UTC.  A naive local        *)
(* date-time is the number of seconds since 2025-01-01T00:00:00 on the     *)
(* local wall clock.                                                       *)
(***************************************************************************)
EXTENDS Integers, Sequences, FiniteSets, TLC

(* ---------------------------------------------------------------------- *)
(* Bounds of the model                                                     *)
(* ---------------------------------------------------------------------- *)
\* total number of beat cycles started over a run
MaxCycles == 2
\* the clock stops advancing this many seconds after the first instant
MaxElapsed == 360
\* number of rows of the tasks table
MaxTasks == 2

\* the worker slots that can execute dispatch_periodic_tasks concurrently
Procs == {1, 2}
\* first instant of a run: 2025-01-01T13:59:00Z
T0 == 13 * 3600 + 59 * 60
\* amounts by which the wall clock advances between two observations
ClockSteps == {60, 300}

\* None of a nullable timestamp column (every real timestamp is >= 0)
Null == -1

(* ---------------------------------------------------------------------- *)
(* Library functions the evaluation calls                                  *)
(* ---------------------------------------------------------------------- *)
\* pytz.timezone(name): the zones pytz knows; any other name raises
\* UnknownTimeZoneError
KnownTimezones == {"UTC", "America/New_York"}

\* UTC offset of a zone in seconds (America/New_York is on EST for the whole
\* window of a run)
UtcOffset(tz) == IF tz = "America/New_York" THEN -18000 ELSE 0

\* now_utc.astimezone(task_tz): the local wall-clock reading of an instant
AsTimezone(t, tz) == t + UtcOffset(tz)

\* the naive date-time read as if it were UTC, whatever the zone
LocalizeAsUtc(naive, tz) == naive

\* task_tz.localize(naive): the instant at which the local wall clock of the
\* zone shows the naive date-time
Localize(naive, tz) == naive - UtcOffset(tz)

\* the keyword arguments timedelta accepts, with their length in seconds
\* (milliseconds and microseconds are accepted too but are below the
\* resolution of the model); any other key raises TypeError
TimedeltaKeys == {"seconds", "minutes", "hours", "days", "weeks"}

Timedelta(period, every) ==
    every * (CASE period = "seconds" -> 1
               [] period = "minutes" -> 60
               [] period = "hours" -> 3600
               [] period = "days" -> 86400
               [] period = "weeks" -> 604800
               [] OTHER -> 0)

\* datetime.fromisoformat(s): the strings it parses; any other raises
\* ValueError
IsoStrings == {"2025-01-01T09:00:00", "2025-01-01T13:00:00"}

FromIsoformat(s) ==
    CASE s = "2025-01-01T09:00:00" -> 32400
      [] s = "2025-01-01T13:00:00" -> 46800
      [] OTHER -> 0

\* croniter(cron_str, base): the expressions it accepts; any other raises
\* CroniterBadCronError
CronStrings == {"* * * * *", "*/2 * * * *"}

\* distance in seconds between two occurrences of an accepted expression
CronStep(cron_str) == IF cron_str = "*/2 * * * *" THEN 120 ELSE 60

\* itr.get_prev(datetime): the latest occurrence strictly before the base
\* time (croniter starts its backward search one second before the base)
GetPrev(cron_str, base_time) ==
    ((base_time - 1) \div CronStep(cron_str)) * CronStep(cron_str)

(* ---------------------------------------------------------------------- *)
(* The tasks table                                                         *)
(* ---------------------------------------------------------------------- *)
ScrapeStep == [tool_name |-> "scrape_web", parameters |-> "url,selector"]
EmailStep == [tool_name |-> "send_email", parameters |-> "recipient,subject,body"]

\* a row as crud.create_task inserts it: is_active defaults to True and
\* last_run_at to NULL.  An absent key of schedule_details is "" (value,
\* period) or 0 (every): the code tests these with `not`, which does not
\* tell None from "" or 0.
NewTask(wf, sd, tz) ==
    [workflow |-> wf, schedule_details |-> sd, timezone |-> tz,
     is_active |-> TRUE, last_run_at |-> Null]

Schedule(type, value, every, period) ==
    [type |-> type, value |-> value, every |-> every, period |-> period]

\* the rows a run can start with, by id
Catalog ==
    <<  \* 1: cron, every second minute
        NewTask(<<ScrapeStep, EmailStep>>, Schedule("cron", "*/2 * * * *", 0, ""), "UTC"),
        \* 2: interval of five minutes
        NewTask(<<EmailStep>>, Schedule("interval", "", 5, "minutes"), "UTC"),
        \* 3: one-shot at 09:00 New York time = 14:00Z
        NewTask(<<ScrapeStep, EmailStep>>, Schedule("datetime", "2025-01-01T09:00:00", 0, ""), "America/New_York"),
        \* 4: one-shot at 13:00Z, already past at the first instant, no steps
        NewTask(<<>>, Schedule("datetime", "2025-01-01T13:00:00", 0, ""), "UTC"),
        \* 5: cron with an expression croniter rejects
        NewTask(<<EmailStep>>, Schedule("cron", "0 9 first * *", 0, ""), "UTC"),
        \* 6: interval with a negative every
        NewTask(<<EmailStep>>, Schedule("interval", "", -1, "minutes"), "UTC"),
        \* 7: interval with a period timedelta rejects
        NewTask(<<EmailStep>>, Schedule("interval", "", 1, "months"), "UTC"),
        \* 8: one-shot with a value fromisoformat rejects
        NewTask(<<EmailStep>>, Schedule("datetime", "tomorrow 9am", 0, ""), "UTC"),
        \* 9: one-shot in a zone pytz does not know
        NewTask(<<EmailStep>>, Schedule("datetime", "2025-01-01T13:00:00", 0, ""), "Mars/Olympus"),
        \* 10: cron without value
        NewTask(<<EmailStep>>, Schedule("cron", "", 0, ""), "UTC"),
        \* 11: interval without every
        NewTask(<<EmailStep>>, Schedule("interval", "", 0, "minutes"), "UTC"),
        \* 12: interval without period
        NewTask(<<EmailStep>>, Schedule("interval", "", 1, ""), "UTC"),
        \* 13: one-shot without value
        NewTask(<<EmailStep>>, Schedule("datetime", "", 0, ""), "UTC"),
        \* 14: interval of five minutes that last ran at 13:58:00Z
        [NewTask(<<EmailStep>>, Schedule("interval", "", 5, "minutes"), "UTC")
            EXCEPT !.last_run_at = T0 - 60]
    >>

TaskIds == DOMAIN Catalog

\* the tables with at most MaxTasks rows, taken among the rows ids
TablesOver(ids) ==
    { [t \in s |-> Catalog[t]] :
        s \in {x \in SUBSET ids : Cardinality(x) <= MaxTasks} }

\* rows with a schedule of each type, and one with an unparsable one
CoreIds == {1, 2, 3, 5}

\* rows with interval schedules of either sign
SignedIds == {2, 5, 6}

\* rows with interval schedules, fresh and already run
IntervalIds == {2, 5, 14}

\* rows with a workflow of two steps and of none
EmptyWorkflowIds == {1, 4, 5}

\* an interval row and a row whose evaluation raises
FairIds == {2, 5}

\* a cron row and a row whose evaluation raises
CadenceIds == {1, 2, 5}

\* rows with each kind of malformed schedule data
MalformedIds == {2, 3, 5, 7, 8, 9}

\* rows with each kind of incomplete schedule data
IncompleteIds == {2, 5, 10, 11, 12, 13}

(* ---------------------------------------------------------------------- *)
(* Evaluation of one task (the body of the loop of Phase 1)                *)
(* ---------------------------------------------------------------------- *)
\* the polling window of the cron test, in seconds
PollingWindow == 60

\* a missing field is not tested for and the library call raises on it
SkippedRaises(task) == [outcome |-> "raise", is_due |-> FALSE, task |-> task]

\* `continue`: the task is left as it is and the loop goes on
Skipped(task) == [outcome |-> "continue", is_due |-> FALSE, task |-> task]
\* an exception leaves the loop
Raised(task) == [outcome |-> "raise", is_due |-> FALSE, task |-> task]
\* the end of the loop body is reached with the row stamped, due or not
EvaluatedTouched(due, task) ==
    [outcome |-> "ok", is_due |-> due, task |-> [task EXCEPT !.last_run_at = 0]]

\* the end of the loop body is reached
Evaluated(due, task) == [outcome |-> "ok", is_due |-> due, task |-> task]

EvalCron(task, now) ==
    LET cron_str == task.schedule_details.value
        base_time == AsTimezone(now, task.timezone)
        prev_run_time == GetPrev(cron_str, base_time)
    IN  IF cron_str = "" THEN Skipped(task)
        ELSE IF task.timezone \notin KnownTimezones THEN Raised(task)
        ELSE IF cron_str \notin CronStrings THEN Raised(task)
        ELSE Evaluated(base_time - prev_run_time <= PollingWindow, task)

\* an interval task is taken as due at every evaluation
IntervalAlwaysDue(next_run_time, now) == TRUE

\* the comparison that decides an interval task
IntervalIsDue(next_run_time, now) == next_run_time <= now

\* last_run_at is marked with the time the run was scheduled for
IntervalMarkNext(next_run_time, now) == next_run_time

\* the value an interval task's last_run_at is marked with
IntervalMark(next_run_time, now) == now

EvalInterval(task, now) ==
    LET every == task.schedule_details.every
        period == task.schedule_details.period
        next_run_time == IF task.last_run_at # Null
                         THEN task.last_run_at + Timedelta(period, every)
                         ELSE now
    IN  IF every = 0 \/ period = "" THEN Skipped(task)
        ELSE IF task.last_run_at # Null /\ period \notin TimedeltaKeys THEN Raised(task)
        ELSE IF IntervalIsDue(next_run_time, now)
             THEN Evaluated(TRUE, [task EXCEPT !.last_run_at = IntervalMark(next_run_time, now)])
             ELSE Evaluated(FALSE, task)

\* a due one-shot task is left active
DateTimeMarkKept == TRUE

\* what a due one-shot task's is_active is marked with
DateTimeMark == FALSE

EvalDateTime(task, now) ==
    LET scheduled_time_str == task.schedule_details.value
        scheduled_time_aware == Localize(FromIsoformat(scheduled_time_str), task.timezone)
    IN  IF scheduled_time_str = "" THEN Skipped(task)
        ELSE IF scheduled_time_str \notin IsoStrings THEN Raised(task)
        ELSE IF task.timezone \notin KnownTimezones THEN Raised(task)
        ELSE IF scheduled_time_aware <= now
             THEN Evaluated(TRUE, [task EXCEPT !.is_active = DateTimeMark])
             ELSE Evaluated(FALSE, task)

\* every row the loop reaches is stamped, due or not
EvalTaskStamped(task, now) ==
    LET r == CASE task.schedule_details.type = "cron" -> EvalCron(task, now)
               [] task.schedule_details.type = "interval" -> EvalInterval(task, now)
               [] task.schedule_details.type = "datetime" -> EvalDateTime(task, now)
               [] OTHER -> Evaluated(FALSE, task)
    IN  [r EXCEPT !.task = [r.task EXCEPT !.last_run_at = now]]

EvalTask(task, now) ==
    CASE task.schedule_details.type = "cron" -> EvalCron(task, now)
      [] task.schedule_details.type = "interval" -> EvalInterval(task, now)
      [] task.schedule_details.type = "datetime" -> EvalDateTime(task, now)
      [] OTHER -> Evaluated(FALSE, task)

\* the signatures taken from the last step of the workflow to the first
BuildSignaturesReversed(workflow) ==
    [i \in 1..Len(workflow) |->
        [task |-> workflow[Len(workflow) + 1 - i].tool_name,
         kwargs |-> workflow[Len(workflow) + 1 - i].parameters]]

\* the chain of signatures Phase 2 builds from a payload's workflow
BuildSignatures(workflow) ==
    [i \in 1..Len(workflow) |->
        [task |-> workflow[i].tool_name, kwargs |-> workflow[i].parameters]]

(* ---------------------------------------------------------------------- *)
(* State                                                                   *)
(* ---------------------------------------------------------------------- *)
VARIABLES
    clock,              \* the wall clock, as last read by datetime.now
    db,                 \* the committed rows of the tasks table, by id
    lock,               \* the holder of each row's FOR UPDATE lock
    pc,                 \* where each worker slot is in dispatch_periodic_tasks
    now_utc,            \* the cycle's now_utc
    session,            \* the Task objects of the cycle's session, by id
    dispatch_payloads,  \* the cycle's list of payloads
    phase1,             \* how Phase 1 of the cycle ended
    cycle,              \* number of the cycle a slot executes
    ncycles,            \* number of cycles started so far
    snapshot,           \* history: the rows as the cycle's query returned them
    committed,          \* history: the due findings each commit made permanent
    log                 \* history: the chains handed to the broker

vars == <<clock, db, lock, pc, now_utc, session,
          dispatch_payloads, phase1, cycle, ncycles, snapshot,
          committed, log>>

\* no holder of a row lock
Nobody == 0

\* the empty mapping
NoRows == <<>>

PayloadIds(p) == {dispatch_payloads[p][i].id : i \in 1..Len(dispatch_payloads[p])}

\* the ids the query of slot p returned
Fetched(p) == DOMAIN snapshot[p]

InitOver(ids) ==
    /\ clock = T0
    /\ db \in TablesOver(ids)
    /\ lock = [t \in TaskIds |-> Nobody]
    /\ pc = [p \in Procs |-> "idle"]
    /\ now_utc = [p \in Procs |-> Null]
    /\ session = [p \in Procs |-> NoRows]
    /\ dispatch_payloads = [p \in Procs |-> <<>>]
    /\ phase1 = [p \in Procs |-> "none"]
    /\ cycle = [p \in Procs |-> 0]
    /\ ncycles = 0
    /\ snapshot = [p \in Procs |-> NoRows]
    /\ committed = {}
    /\ log = {}

Init == InitOver(CoreIds)

\* runs over tables with an interval of a negative every
InitSigned == InitOver(SignedIds)

\* runs over tables of interval tasks
InitInterval == InitOver(IntervalIds)

\* runs over tables with malformed schedule data
InitMalformed == InitOver(MalformedIds)

\* runs over tables with incomplete schedule data
InitIncomplete == InitOver(IncompleteIds)

\* runs in which every cycle failure can happen
InitFair == InitOver(FairIds)

\* runs of a single scheduler at a fixed cadence
InitCadence == InitOver(CadenceIds)

\* runs over tables with a task whose workflow has no step
InitEmptyWorkflow == InitOver(EmptyWorkflowIds)

(* ---------------------------------------------------------------------- *)
(* Phase 1                                                                 *)
(* ---------------------------------------------------------------------- *)
\* beat sends dispatch_periodic_tasks and the first free worker slot starts
\* it (the slots are interchangeable): now_utc is read from the wall clock,
\* which has advanced by d since it was last read; the payload list is empty
\* and a session is created
Begin(p) ==
    /\ pc[p] = "idle"
    /\ \A q \in Procs : q < p => pc[q] # "idle"
    /\ ncycles < MaxCycles
    /\ \E d \in {0} \cup ClockSteps :
        /\ clock + d <= T0 + MaxElapsed
        /\ clock' = clock + d
    /\ ncycles' = ncycles + 1
    /\ cycle' = [cycle EXCEPT ![p] = ncycles + 1]
    /\ now_utc' = [now_utc EXCEPT ![p] = clock']
    /\ dispatch_payloads' = [dispatch_payloads EXCEPT ![p] = <<>>]
    /\ phase1' = [phase1 EXCEPT ![p] = "running"]
    /\ snapshot' = [snapshot EXCEPT ![p] = NoRows]
    /\ pc' = [pc EXCEPT ![p] = "query"]
    /\ UNCHANGED <<db, lock, session, committed, log>>

\* the rows a query without the is_active filter returns
AllIds == DOMAIN db

\* the rows SELECT ... WHERE is_active FOR UPDATE returns
ActiveIds == {t \in DOMAIN db : db[t].is_active}

\* the query waits while another transaction holds the lock of a row it has
\* to lock
QueryGranted == \A t \in ActiveIds : lock[t] = Nobody

\* the row locks after the query of slot p has locked every active row
Acquire(p) == [t \in TaskIds |-> IF t \in ActiveIds THEN p ELSE lock[t]]

\* the committed version of every active row, as the query reads it
QueryResult == [t \in ActiveIds |-> db[t]]

\* the transaction stays open: the slot keeps its row locks
ReleaseNothing(p) == lock

\* the locks a slot holds are released when its transaction ends
Release(p) == [t \in TaskIds |-> IF lock[t] = p THEN Nobody ELSE lock[t]]

\* what the list of payloads is after the except clause has run
PayloadsAfterError(payloads) == payloads

\* an exception that no clause catches: the function never returns
ExceptPropagates(p) ==
    /\ lock' = Release(p)
    /\ session' = [session EXCEPT ![p] = NoRows]
    /\ phase1' = [phase1 EXCEPT ![p] = "error"]
    /\ pc' = [pc EXCEPT ![p] = "crashed"]

\* an exception in the try block: the except clause rolls the transaction
\* back, the finally clause closes the session, and the function goes on
\* to Phase 2
ExceptFinally(p) ==
    /\ lock' = Release(p)
    /\ session' = [session EXCEPT ![p] = NoRows]
    /\ phase1' = [phase1 EXCEPT ![p] = "error"]
    /\ pc' = [pc EXCEPT ![p] = "dispatch"]

\* the query raises (connection failure, lock timeout): nothing was read
QueryFails(p) ==
    /\ pc[p] = "query"
    /\ ExceptFinally(p)
    /\ UNCHANGED <<clock, db, now_utc, dispatch_payloads, cycle, ncycles,
                   snapshot, committed, log>>

\* the payload of a due task loses its steps
PayloadWithoutSteps(t, task) == [id |-> t, workflow |-> <<>>]

\* the payload the loop appends for a due task
Payload(t, task) == [id |-> t, workflow |-> task.workflow]

\* the orders in which the query can return the rows ids (it has no ORDER BY)
Orders(ids) ==
    {o \in [1..Cardinality(ids) -> ids] : \A i, j \in DOMAIN o : o[i] = o[j] => i = j}

\* the loop of Phase 1 over the rows in the given order: the Task objects
\* and the payload list it leaves, and whether an iteration raised
RECURSIVE RunLoop(_, _, _, _)
RunLoop(order, now, tasks, payloads) ==
    IF order = <<>>
    THEN [raised |-> FALSE, tasks |-> tasks, payloads |-> payloads]
    ELSE LET t == Head(order)
             r == EvalTask(tasks[t], now)
         IN  IF r.outcome = "raise"
             THEN [raised |-> TRUE, tasks |-> tasks, payloads |-> payloads]
             ELSE RunLoop(Tail(order), now, [tasks EXCEPT ![t] = r.task],
                          IF r.is_due THEN Append(payloads, Payload(t, r.task))
                          ELSE payloads)

\* the query returns the active rows, locked, and the loop of Phase 1 runs
\* over them to its end
Evaluate(p) ==
    /\ pc[p] = "query"
    /\ QueryGranted
    /\ \E order \in Orders(ActiveIds) :
        LET res == RunLoop(order, now_utc[p], QueryResult, <<>>) IN
        /\ ~res.raised
        /\ session' = [session EXCEPT ![p] = res.tasks]
        /\ dispatch_payloads' = [dispatch_payloads EXCEPT ![p] = res.payloads]
    /\ lock' = Acquire(p)
    /\ snapshot' = [snapshot EXCEPT ![p] = QueryResult]
    /\ pc' = [pc EXCEPT ![p] = "commit"]
    /\ UNCHANGED <<clock, db, now_utc, phase1, cycle, ncycles, committed, log>>

\* the query returns the active rows, locked, and an iteration of the loop
\* of Phase 1 raises: the except clause rolls back, which releases the locks
EvaluateRaises(p) ==
    /\ pc[p] = "query"
    /\ QueryGranted
    /\ \E order \in Orders(ActiveIds) :
        LET res == RunLoop(order, now_utc[p], QueryResult, <<>>) IN
        /\ res.raised
        /\ dispatch_payloads' = [dispatch_payloads EXCEPT ![p] = PayloadsAfterError(res.payloads)]
    /\ snapshot' = [snapshot EXCEPT ![p] = QueryResult]
    /\ ExceptFinally(p)
    /\ UNCHANGED <<clock, db, now_utc, cycle, ncycles, committed, log>>

\* the commit stamps every due row, whatever its type, with the cycle's now
FlushStamped(p) ==
    [t \in DOMAIN db |->
        IF t \in PayloadIds(p) THEN [session[p][t] EXCEPT !.last_run_at = now_utc[p]]
        ELSE IF t \in DOMAIN session[p] THEN session[p][t]
        ELSE db[t]]

\* the rows after the session's pending changes are flushed and committed
Flush(p) == [t \in DOMAIN db |-> IF t \in DOMAIN session[p] THEN session[p][t] ELSE db[t]]

\* the payload list is not empty: db.commit(), then db.close() in the
\* finally clause
Commit(p) ==
    /\ pc[p] = "commit"
    /\ dispatch_payloads[p] # <<>>
    /\ db' = Flush(p)
    /\ lock' = Release(p)
    /\ session' = [session EXCEPT ![p] = NoRows]
    /\ phase1' = [phase1 EXCEPT ![p] = "committed"]
    /\ committed' = committed \cup
          {[id |-> t, cycle |-> cycle[p], now |-> now_utc[p]] : t \in PayloadIds(p)}
    /\ pc' = [pc EXCEPT ![p] = "dispatch"]
    /\ UNCHANGED <<clock, now_utc, dispatch_payloads, cycle, ncycles, snapshot, log>>

\* the pending changes of the session reach the table although the commit
\* raised
PersistedAnyway(p) ==
    [t \in DOMAIN db |-> IF t \in DOMAIN session[p] THEN session[p][t] ELSE db[t]]

\* the rows after db.rollback(): the pending changes of the session are
\* dropped
RolledBack(p) == db

\* db.commit() raises
CommitFails(p) ==
    /\ pc[p] = "commit"
    /\ dispatch_payloads[p] # <<>>
    /\ dispatch_payloads' = [dispatch_payloads EXCEPT ![p] = PayloadsAfterError(@)]
    /\ db' = RolledBack(p)
    /\ ExceptFinally(p)
    /\ UNCHANGED <<clock, now_utc, cycle, ncycles, snapshot, committed, log>>

\* the payload list is empty: no commit; db.close() ends the transaction
NoneDue(p) ==
    /\ pc[p] = "commit"
    /\ dispatch_payloads[p] = <<>>
    /\ lock' = Release(p)
    /\ session' = [session EXCEPT ![p] = NoRows]
    /\ phase1' = [phase1 EXCEPT ![p] = "nodue"]
    /\ pc' = [pc EXCEPT ![p] = "dispatch"]
    /\ UNCHANGED <<clock, db, now_utc, dispatch_payloads, cycle, ncycles,
                   snapshot, committed, log>>

(* ---------------------------------------------------------------------- *)
(* Phase 2                                                                 *)
(* ---------------------------------------------------------------------- *)
\* every position of the payload list, with or without steps
SendableAll(p) == 1..Len(dispatch_payloads[p])

\* the positions of the payload list whose workflow gives a chain to send
Sendable(p) ==
    {i \in 1..Len(dispatch_payloads[p]) :
        BuildSignatures(dispatch_payloads[p][i].workflow) # <<>>}

\* the record of the apply_async() call for the payload at position i, and
\* whether it handed the chain to the broker (ok) or raised
Published(p, i, ok) ==
    [id |-> dispatch_payloads[p][i].id, cycle |-> cycle[p], now |-> now_utc[p],
     chain |-> BuildSignatures(dispatch_payloads[p][i].workflow),
     ok |-> ok,
     committed |-> (phase1[p] = "committed"),
     seen |-> snapshot[p][dispatch_payloads[p][i].id].last_run_at]

\* the apply_async() calls of a loop that the first one to raise ends
PublishLoopAborting(p, failing) ==
    {Published(p, i, i \notin failing) :
        i \in {j \in Sendable(p) : \A k \in failing : k >= j}}

\* the apply_async() calls the loop of Phase 2 makes when those at the
\* positions failing raise: the except clause is inside the loop body, so
\* every payload with steps is reached
PublishLoop(p, failing) ==
    {Published(p, i, i \notin failing) : i \in Sendable(p)}

\* the loop of Phase 2: a chain is built and sent for every payload with
\* steps; each apply_async() that raises (those at the positions failing)
\* is reported by the except clause of the loop body and the loop goes on.
\* Then the function returns and the slot is free for the next beat.
Dispatch(p) ==
    /\ pc[p] = "dispatch"
    /\ \E failing \in SUBSET Sendable(p) :
        log' = log \cup PublishLoop(p, failing)
    /\ pc' = [pc EXCEPT ![p] = "idle"]
    /\ now_utc' = [now_utc EXCEPT ![p] = Null]
    /\ dispatch_payloads' = [dispatch_payloads EXCEPT ![p] = <<>>]
    /\ phase1' = [phase1 EXCEPT ![p] = "none"]
    /\ snapshot' = [snapshot EXCEPT ![p] = NoRows]
    /\ UNCHANGED <<clock, db, lock, session, cycle, ncycles, committed>>

Next ==
    \/ \E p \in Procs : Begin(p)
    \/ \E p \in Procs : QueryFails(p)
    \/ \E p \in Procs : Evaluate(p)
    \/ \E p \in Procs : EvaluateRaises(p)
    \/ \E p \in Procs : Commit(p)
    \/ \E p \in Procs : CommitFails(p)
    \/ \E p \in Procs : NoneDue(p)
    \/ \E p \in Procs : Dispatch(p)

Spec == Init /\ [][Next]_vars

SpecSigned == InitSigned /\ [][Next]_vars

SpecInterval == InitInterval /\ [][Next]_vars

SpecMalformed == InitMalformed /\ [][Next]_vars

SpecIncomplete == InitIncomplete /\ [][Next]_vars

SpecEmptyWorkflow == InitEmptyWorkflow /\ [][Next]_vars

\* the steps that end the wait of the query: the rows are returned (and the
\* loop runs), or the statement fails
QueryEnds(p) == Evaluate(p) \/ EvaluateRaises(p) \/ QueryFails(p)

\* the steps that end the transaction
TransactionEnds(p) == Commit(p) \/ CommitFails(p) \/ NoneDue(p)

\* the next step of slot p, whichever it is
Step(p) == Begin(p) \/ QueryEnds(p) \/ TransactionEnds(p) \/ Dispatch(p)

\* beat keeps sending the task at its cadence and a worker that has started
\* the function keeps executing it
Fairness == \A p \in Procs : WF_vars(Step(p))

SpecFair == InitFair /\ [][Next]_vars /\ Fairness

\* a single worker slot runs the cycles, each exactly one polling window
\* after the one before (the first at any time)
BeginAtCadence(p) ==
    /\ p = 1
    /\ Begin(p)
    /\ ncycles > 0 => clock' = clock + PollingWindow

\* a single scheduler at a fixed cadence whose store does not fail
NextCadence ==
    \/ BeginAtCadence(1)
    \/ Evaluate(1)
    \/ EvaluateRaises(1)
    \/ Commit(1)
    \/ NoneDue(1)
    \/ Dispatch(1)

SpecCadence == InitCadence /\ [][NextCadence]_vars

(* ---------------------------------------------------------------------- *)
(* Vocabulary of the properties                                            *)
(* ---------------------------------------------------------------------- *)
IsCron(task) == task.schedule_details.type = "cron"
IsInterval(task) == task.schedule_details.type = "interval"
IsDateTime(task) == task.schedule_details.type = "datetime"

\* the schedule lacks a field its type requires
LacksRequiredField(task) ==
    \/ IsCron(task) /\ task.schedule_details.value = ""
    \/ IsInterval(task) /\ (task.schedule_details.every = 0 \/ task.schedule_details.period = "")
    \/ IsDateTime(task) /\ task.schedule_details.value = ""

\* the schedule has every field its type requires, each with a valid value
WellFormed(task) ==
    \/ IsCron(task) /\ task.schedule_details.value \in CronStrings
                    /\ task.timezone \in KnownTimezones
    \/ IsInterval(task) /\ task.schedule_details.every # 0
                        /\ task.schedule_details.period \in {"seconds", "minutes", "hours", "days"}
    \/ IsDateTime(task) /\ task.schedule_details.value \in IsoStrings
                        /\ task.timezone \in KnownTimezones

\* the length of an interval in seconds
IntervalSeconds(task) ==
    task.schedule_details.every *
        (CASE task.schedule_details.period = "seconds" -> 1
           [] task.schedule_details.period = "minutes" -> 60
           [] task.schedule_details.period = "hours" -> 3600
           [] task.schedule_details.period = "days" -> 86400)

\* the chains of task t handed to the broker
Handed(t) == {r \in log : r.id = t /\ r.ok}

(* ---------------------------------------------------------------------- *)
(* Properties                                                              *)
(* ---------------------------------------------------------------------- *)

\* C1: the workflow of a DateTime task is handed to the queue in at most one
\* cycle over the whole run, whatever fails in Phase 1 or Phase 2.
C1_DateTimeHandedInOneCycle ==
    \A t \in DOMAIN db :
        IsDateTime(db[t]) => Cardinality({r.cycle : r \in Handed(t)}) <= 1

\* C2: a workflow is published in a cycle only if Phase 1 of that cycle
\* committed; a cycle whose Phase 1 ended in an error publishes nothing.
C2_PublishedOnlyAfterCommit == \A r \in log : r.committed

\* the tasks of the result of slot p's query that the loop finds due when
\* it evaluates each of them
DueOf(p) == {t \in Fetched(p) : EvalTask(snapshot[p][t], now_utc[p]).is_due}

\* C3: when an active task carries malformed schedule data, only that task
\* is skipped: every other task of the cycle gets the due decision, the
\* committed mutation and the dispatch it would get without it.
C3_OnlyMalformedSkipped ==
    \A p \in Procs :
        (/\ pc[p] = "dispatch"
         /\ \E t \in Fetched(p) :
                ~WellFormed(snapshot[p][t]) /\ ~LacksRequiredField(snapshot[p][t]))
        => /\ PayloadIds(p) = DueOf(p)
           /\ DueOf(p) # {} => phase1[p] = "committed"

\* C4: a task whose schedule lacks a required field is neither dispatched
\* nor mutated and stays active, and the cycle goes on to evaluate, commit
\* and dispatch the remaining active tasks.
C4_IncompleteSkipped ==
    /\ \A t \in DOMAIN db :
        LacksRequiredField(db[t]) =>
            /\ db[t] = Catalog[t]
            /\ \A r \in log : r.id # t
            /\ \A p \in Procs :
                /\ t \notin PayloadIds(p)
                /\ t \in DOMAIN session[p] => session[p][t] = db[t]
    /\ \A p \in Procs :
        (/\ pc[p] \in {"commit", "dispatch"}
         /\ Fetched(p) # {}
         /\ \A t \in Fetched(p) :
                WellFormed(snapshot[p][t]) \/ LacksRequiredField(snapshot[p][t]))
        => /\ PayloadIds(p) = {t \in DueOf(p) : WellFormed(snapshot[p][t])}
           /\ phase1[p] = "committed" =>
                \A t \in PayloadIds(p) :
                    IsInterval(db[t]) => db[t].last_run_at >= now_utc[p]

\* a cycle that fetched a task lacking a field together with a due task has
\* committed the due task's mutation and is about to dispatch it
C4_Witness ==
    \E p \in Procs : \E t, u \in Fetched(p) :
        /\ pc[p] = "dispatch"
        /\ phase1[p] = "committed"
        /\ LacksRequiredField(snapshot[p][t])
        /\ u \in PayloadIds(p)
        /\ db[u].last_run_at = now_utc[p]
        /\ db[t].is_active

\* C5: when apply_async() raises for one due task, the table is what Phase 1
\* committed (the task's own mutation and that of every other due task), and
\* every other payload of the cycle with steps is still sent.
C5_PublishFailureIsolated ==
    [][\A p \in Procs :
        (pc[p] = "dispatch" /\ pc'[p] = "idle") =>
            /\ db' = db
            /\ committed' = committed
            /\ \E failing \in SUBSET Sendable(p) :
                \A i \in Sendable(p) : Published(p, i, i \notin failing) \in log'
            /\ phase1[p] = "committed" =>
                \A t \in PayloadIds(p) :
                    /\ IsDateTime(db[t]) => ~db'[t].is_active
                    /\ IsInterval(db[t]) => db'[t].last_run_at >= now_utc[p]]_vars

\* a committed cycle in which one apply_async() raised and another handed its
\* chain to the broker, the mutation of the task that failed being in the
\* table
C5_Witness ==
    \E r1, r2 \in log :
        /\ r1.cycle = r2.cycle
        /\ r1.id # r2.id
        /\ r1.committed
        /\ ~r1.ok
        /\ r2.ok
        /\ \/ IsDateTime(db[r1.id]) /\ ~db[r1.id].is_active
           \/ IsInterval(db[r1.id]) /\ db[r1.id].last_run_at = r1.now

\* C6: an interval task that last ran at L is due exactly when
\* now >= L + every*period, and one that never ran is due at once; a due task
\* is marked with last_run_at = now, which is what the commit persists.
C6_IntervalDueAndMark ==
    /\ [](\A p \in Procs :
            pc[p] = "commit" =>
                \A t \in Fetched(p) :
                    (IsInterval(snapshot[p][t]) /\ WellFormed(snapshot[p][t])) =>
                        LET L == snapshot[p][t].last_run_at
                            due == \/ L = Null
                                   \/ now_utc[p] >= L + IntervalSeconds(snapshot[p][t])
                        IN  /\ t \in PayloadIds(p) <=> due
                            /\ session[p][t].last_run_at = IF due THEN now_utc[p] ELSE L)
    /\ [][\A p \in Procs :
            (pc[p] = "commit" /\ phase1'[p] = "committed") =>
                \A t \in PayloadIds(p) :
                    IsInterval(db[t]) => db'[t].last_run_at = now_utc[p]]_vars

\* an interval task that ran before fired later than the end of its
\* interval, and the commit marked it with the cycle's now
C6_Witness ==
    \E p \in Procs : \E t \in PayloadIds(p) :
        /\ pc[p] = "dispatch"
        /\ phase1[p] = "committed"
        /\ IsInterval(db[t])
        /\ snapshot[p][t].last_run_at # Null
        /\ now_utc[p] > snapshot[p][t].last_run_at + IntervalSeconds(snapshot[p][t])
        /\ db[t].last_run_at = now_utc[p]

\* C7: the persisted last_run_at of an interval task with a positive every
\* never decreases, and it changes only in the commit of a cycle that found
\* the task due, to that cycle's now.
C7_LastRunAtMonotone ==
    [][\A t \in DOMAIN db :
        (IsInterval(db[t]) /\ db[t].schedule_details.every > 0) =>
            /\ db'[t].last_run_at >= db[t].last_run_at
            /\ db'[t].last_run_at # db[t].last_run_at =>
                \E p \in Procs :
                    /\ pc[p] = "commit"
                    /\ phase1'[p] = "committed"
                    /\ t \in PayloadIds(p)
                    /\ db'[t].last_run_at = now_utc[p]]_vars

\* a cycle that read its now before another cycle, which read a later now,
\* marked the task, has evaluated the task and not found it due
C7_Witness ==
    \E p \in Procs : \E t \in Fetched(p) :
        /\ pc[p] = "commit"
        /\ IsInterval(snapshot[p][t])
        /\ snapshot[p][t].schedule_details.every > 0
        /\ snapshot[p][t].last_run_at > now_utc[p]
        /\ t \notin PayloadIds(p)

\* the one-shot tasks a cycle found due and committed
FiredDateTimes == {rec.id : rec \in {r \in committed : IsDateTime(db[r.id])}}

\* C8: once a cycle has found a DateTime task due and committed, the task is
\* inactive in every later state, no query returns it, no cycle adds it to
\* its due set, and only a cycle that already held it publishes it.
C8_DateTimeFiresOnce ==
    /\ [](\A t \in FiredDateTimes : ~db[t].is_active)
    /\ [][\A t \in FiredDateTimes :
            /\ \A p \in Procs :
                /\ t \in DOMAIN snapshot'[p] => t \in DOMAIN snapshot[p]
                /\ t \in PayloadIds(p)' => t \in PayloadIds(p)
            /\ \A r \in log' \ log :
                r.id = t => \E p \in Procs : t \in PayloadIds(p) /\ cycle[p] = r.cycle]_vars

\* a later cycle, at a later now, has run its query and its loop after a
\* one-shot task was fired and committed, without the task
C8_Witness ==
    \E rec \in committed : \E p \in Procs :
        /\ IsDateTime(db[rec.id])
        /\ pc[p] = "commit"
        /\ cycle[p] > rec.cycle
        /\ now_utc[p] > rec.now
        /\ rec.id \notin Fetched(p)
        /\ Fetched(p) # {}

\* C9: when Phase 1 runs with the now of a cycle that found an Interval or
\* DateTime task due and committed, the task is not in its due set.
C9_NotDueAgainAtSameNow ==
    [][\A p \in Procs :
        (pc[p] = "query" /\ pc'[p] # "query") =>
            \A t \in PayloadIds(p)' :
                (IsInterval(db[t]) \/ IsDateTime(db[t])) =>
                    ~\E rec \in committed : rec.id = t /\ rec.now = now_utc[p]]_vars

\* C10: two cycles never hold the same row in open transactions, and a cycle
\* does not hand over the occurrence of an Interval or DateTime task (the
\* task as of one last_run_at) that a cycle begun after it has handed over.
C10_OccurrencePublishedOnce ==
    /\ [](\A p, q \in Procs :
            (p # q /\ pc[p] = "commit" /\ pc[q] = "commit") =>
                Fetched(p) \cap Fetched(q) = {})
    /\ [][\A r \in log' \ log :
            (r.ok /\ (IsInterval(db[r.id]) \/ IsDateTime(db[r.id]))) =>
                ~\E r0 \in log :
                    /\ r0.ok
                    /\ r0.id = r.id
                    /\ r0.seen = r.seen
                    /\ r0.cycle > r.cycle]_vars

\* the cron rows of the result of slot p's query that the loop evaluated
CronFetched(p) ==
    {t \in Fetched(p) : IsCron(snapshot[p][t]) /\ WellFormed(snapshot[p][t])}

\* C11: a Cron task is due at T exactly when an occurrence of its
\* expression lies at or before T (in the task's zone) and at most 60
\* seconds before it.
C11_CronDueAtOrBefore ==
    \A p \in Procs :
        pc[p] = "commit" =>
            \A t \in CronFetched(p) :
                LET base == AsTimezone(now_utc[p], snapshot[p][t].timezone)
                    step == CronStep(snapshot[p][t].schedule_details.value)
                IN  t \in PayloadIds(p) <=>
                        \E o \in (base - PollingWindow)..base : o % step = 0

\* the one-shot rows of the result of slot p's query that the loop evaluated
DateTimeFetched(p) ==
    {t \in Fetched(p) : IsDateTime(snapshot[p][t]) /\ WellFormed(snapshot[p][t])}

\* C12: a DateTime task is due at now exactly when its stored naive local
\* date-time is at or before the reading of now on the wall clock of the
\* task's zone (09:00 at UTC-5 is not due at 13:59Z and is due from 14:00Z);
\* a due task is marked inactive, which is what the commit persists.
C12_DateTimeDueInOwnZone ==
    /\ [](\A p \in Procs :
            pc[p] = "commit" =>
                \A t \in DateTimeFetched(p) :
                    LET due == FromIsoformat(snapshot[p][t].schedule_details.value)
                                   <= now_utc[p] + UtcOffset(snapshot[p][t].timezone)
                    IN  /\ t \in PayloadIds(p) <=> due
                        /\ session[p][t].is_active = ~due)
    /\ [][\A p \in Procs :
            (pc[p] = "commit" /\ phase1'[p] = "committed") =>
                \A t \in PayloadIds(p) :
                    IsDateTime(db[t]) => ~db'[t].is_active]_vars

\* the task set for 09:00 in America/New_York was not due in the cycle of
\* 13:59Z and was due, and committed inactive, in a later one
C12_Witness ==
    \E p, q \in Procs : \E t \in DateTimeFetched(p) :
        /\ snapshot[p][t].timezone = "America/New_York"
        /\ snapshot[p][t].schedule_details.value = "2025-01-01T09:00:00"
        /\ pc[p] = "dispatch"
        /\ phase1[p] = "nodue"
        /\ now_utc[p] = 13 * 3600 + 59 * 60
        /\ pc[q] = "dispatch"
        /\ phase1[q] = "committed"
        /\ now_utc[q] > now_utc[p]
        /\ t \in PayloadIds(q)
        /\ ~db[t].is_active

\* C13: the chain published for a task has exactly one item per step of the
\* stored workflow, in the stored order, each with the step's tool name and
\* parameters, whatever Phase 1 changed in the row.
C13_ChainKeepsStoredSteps ==
    \A r \in log :
        /\ Len(r.chain) = Len(db[r.id].workflow)
        /\ \A i \in 1..Len(r.chain) :
            /\ r.chain[i].task = db[r.id].workflow[i].tool_name
            /\ r.chain[i].kwargs = db[r.id].workflow[i].parameters

\* the two-step workflow (scrape, then email) of a one-shot task that
\* Phase 1 deactivated was handed over as a chain of two items
C13_Witness ==
    \E r \in log :
        /\ r.ok
        /\ r.committed
        /\ IsDateTime(db[r.id])
        /\ ~db[r.id].is_active
        /\ Len(r.chain) = 2
        /\ r.chain[1].task = "scrape_web"
        /\ r.chain[2].task = "send_email"

\* C14: a due task whose workflow has no step is not published (no chain is
\* built or sent for it), and every other due task of the cycle, having
\* steps, is.
C14_EmptyWorkflowNotPublished ==
    /\ [](\A r \in log : db[r.id].workflow # <<>> /\ r.chain # <<>>)
    /\ [][\A p \in Procs :
            (pc[p] = "dispatch" /\ pc'[p] = "idle") =>
                \A i \in 1..Len(dispatch_payloads[p]) :
                    LET payload == dispatch_payloads[p][i]
                        sent == \E r \in log' : r.id = payload.id /\ r.cycle = cycle[p]
                    IN  sent <=> payload.workflow # <<>>]_vars

\* a cycle found a task without steps and a task with steps due and
\* committed: the second was handed over, the first left no publish
C14_Witness ==
    \E rec \in committed : \E r \in log :
        /\ db[rec.id].workflow = <<>>
        /\ r.cycle = rec.cycle
        /\ r.ok
        /\ r.committed
        /\ \A r0 \in log : r0.id # rec.id

\* C15: every started cycle returns to idle whatever happens in it, and
\* failed cycles do not keep the later ticks from starting their cycles:
\* every run ends with all its cycles started and all of them over.
C15_LoopSurvivesFailures ==
    /\ \A p \in Procs : (pc[p] # "idle") ~> (pc[p] = "idle")
    /\ <>[](ncycles = MaxCycles /\ \A p \in Procs : pc[p] = "idle")

\* a cycle whose Phase 1 failed, or one of whose publishes failed, is over
\* and a later cycle is running
C15_Witness ==
    \E r \in log : \E p \in Procs :
        /\ ~r.ok \/ ~r.committed
        /\ cycle[p] > r.cycle
        /\ pc[p] = "query"
        /\ \A q \in Procs : cycle[q] = r.cycle => pc[q] = "idle"

\* the instant from which a row is due: the scheduled instant of a one-shot
\* task, the end of the interval of an interval task that ran, and any
\* instant for an interval task that never ran
DueTime(task) ==
    IF IsDateTime(task)
    THEN Localize(FromIsoformat(task.schedule_details.value), task.timezone)
    ELSE IF task.last_run_at = Null THEN 0
    ELSE task.last_run_at + IntervalSeconds(task)

\* the well-formed Interval and DateTime rows with steps that the query of
\* slot p returned and whose due time the cycle's now has reached
Reached(p) ==
    {t \in Fetched(p) :
        /\ IsInterval(snapshot[p][t]) \/ IsDateTime(snapshot[p][t])
        /\ WellFormed(snapshot[p][t])
        /\ snapshot[p][t].workflow # <<>>
        /\ DueTime(snapshot[p][t]) <= now_utc[p]}

\* C16: a cycle whose query returns an active well-formed Interval or
\* DateTime task that has reached its due time sends the task's chain
\* before it ends: the task is dispatched by the first cycle at or after
\* its due time.
C16_DueTaskSentByFirstCycle ==
    [][\A p \in Procs :
        (pc[p] = "dispatch" /\ pc'[p] = "idle") =>
            \A t \in Reached(p) :
                \E r \in log' : r.id = t /\ r.cycle = cycle[p]]_vars

\* C17: a cycle whose Phase 1 ends in an error changes no row of the table,
\* in the step that fails or after it: what the evaluation had changed in
\* the session is dropped.
C17_ErrorLeavesTableUnchanged ==
    [][\A p \in Procs :
        (pc'[p] # pc[p] /\ (phase1'[p] = "error" \/ phase1[p] = "error")) =>
            /\ db' = db
            /\ session'[p] = NoRows]_vars

\* Phase 1 found an Interval or DateTime task due and marked it, then ended
\* in an error: the row is as the query had read it
C17_Witness ==
    \E p \in Procs : \E t \in PayloadIds(p) :
        /\ pc[p] = "dispatch"
        /\ phase1[p] = "error"
        /\ IsInterval(db[t]) \/ IsDateTime(db[t])
        /\ db[t] = snapshot[p][t]
        /\ db[t].is_active

\* the rows that are inactive in the table
InactiveIds == {t \in DOMAIN db : ~db[t].is_active}

\* C18 (as stated): an inactive task is returned by no query, changed by no
\* step and published by no cycle.
C18_InactiveNeverTouched ==
    [][\A t \in InactiveIds :
        /\ \A p \in Procs : t \in DOMAIN snapshot'[p] => t \in DOMAIN snapshot[p]
        /\ db'[t] = db[t]
        /\ \A r \in log' \ log : r.id # t]_vars

\* C18 (amended): an inactive task is returned by no query and changed by no
\* step (is_active never goes back to true), and a cycle publishes only
\* tasks that were active in the result of its own query.
C18_InactiveAtQueryNeverTouched ==
    [][/\ \A t \in InactiveIds :
            /\ \A p \in Procs : t \in DOMAIN snapshot'[p] => t \in DOMAIN snapshot[p]
            /\ db'[t] = db[t]
       /\ \A r \in log' \ log :
            \E p \in Procs :
                /\ cycle[p] = r.cycle
                /\ r.id \in Fetched(p)
                /\ snapshot[p][r.id].is_active]_vars

\* the cycle that deactivated a one-shot task published it, the row being
\* inactive by then, and a later cycle has run its query without the row
C18_Witness ==
    \E r \in log : \E p \in Procs :
        /\ r.ok
        /\ r.committed
        /\ r.id \in InactiveIds
        /\ cycle[p] > r.cycle
        /\ pc[p] = "commit"
        /\ Fetched(p) # {}
        /\ r.id \notin Fetched(p)

\* C19: firing a Cron task changes nothing in its record: the loop leaves
\* the Task object as the query read it and no step changes the row.
C19_CronFiringKeepsRecord ==
    /\ [](\A p \in Procs :
            pc[p] = "commit" =>
                \A t \in CronFetched(p) : session[p][t] = snapshot[p][t])
    /\ [][\A t \in DOMAIN db : IsCron(db[t]) => db'[t] = db[t]]_vars

\* a Cron task was found due, the cycle committed and handed its chain
\* over, and the row is as it was inserted
C19_Witness ==
    \E r \in log :
        /\ IsCron(db[r.id])
        /\ r.ok
        /\ \E rec \in committed : rec.id = r.id /\ rec.cycle = r.cycle
        /\ db[r.id] = Catalog[r.id]

\* the arguments of workflow_chain.apply_async(): the call passes none (no
\* task_id, no headers)
ApplyAsyncArgs == <<>>

\* what the scheduler hands to the queue in a publish: the chain of
\* signatures and the arguments of apply_async()
MessageOf(r) == [chain |-> r.chain, args |-> ApplyAsyncArgs]

\* C20: every publish carries an execution identifier made of the task id
\* and the timestamp of the cycle, and no two publishes carry the same.
C20_PublishTaggedWithExecutionId ==
    /\ \A r \in log :
        /\ "task_id" \in DOMAIN MessageOf(r).args
        /\ MessageOf(r).args["task_id"] = <<r.id, r.now>>
    /\ \A r1, r2 \in log :
        r1 # r2 => MessageOf(r1).args # MessageOf(r2).args

\* the transaction of slot p is over: it holds no row lock and its session
\* holds no object
TransactionOver(p) ==
    /\ \A t \in TaskIds : lock[t] # p
    /\ session[p] = NoRows

\* C21: no publish happens while the cycle's transaction is open: a slot
\* in Phase 2 holds no row lock and no session object, and the step that
\* publishes, whether apply_async() raises or not, changes no row and no
\* lock.
C21_PublishAfterTransaction ==
    /\ [](\A p \in Procs : pc[p] = "dispatch" => TransactionOver(p))
    /\ [][log' # log =>
            /\ \E p \in Procs :
                /\ pc[p] = "dispatch"
                /\ TransactionOver(p)
                /\ \A r \in log' \ log : r.cycle = cycle[p]
            /\ db' = db
            /\ lock' = lock]_vars

\* while a slot is in Phase 2 with a chain to send, another cycle has
\* locked and evaluated the same row
C21_Witness ==
    \E p, q \in Procs : \E i \in Sendable(p) :
        /\ pc[p] = "dispatch"
        /\ phase1[p] = "committed"
        /\ pc[q] = "commit"
        /\ lock[dispatch_payloads[p][i].id] = q
        /\ dispatch_payloads[p][i].id \in Fetched(q)

\* the cycles of the run that found task t due at an occurrence o of its
\* expression (local time): those that had it in their payload list, the
\* latest occurrence at or before their now being o
FoundDueAt(t, o) ==
    {r.cycle : r \in {x \in log :
        /\ x.id = t
        /\ LET base == AsTimezone(x.now, db[t].timezone)
               step == CronStep(db[t].schedule_details.value)
           IN  (base \div step) * step = o}}

\* C22: with a single scheduler whose cycles are 60 seconds apart, every
\* occurrence of a Cron task that falls between the first cycle and the one
\* before the last is found due in exactly one cycle.
C22_CronOccurrenceFoundOnce ==
    ((\A p \in Procs : pc[p] = "idle") /\ ncycles >= 1) =>
        \A t \in DOMAIN db :
            (IsCron(db[t]) /\ WellFormed(db[t])) =>
                LET step == CronStep(db[t].schedule_details.value)
                    last == AsTimezone(clock, db[t].timezone)
                    first == last - PollingWindow * (ncycles - 1)
                IN  \A o \in first..(last - PollingWindow) :
                        o % step = 0 => Cardinality(FoundDueAt(t, o)) = 1

C24_IntervalPublishesSpaced ==
    \A r1, r2 \in log :
        (/\ r1.id = r2.id
         /\ r1.id \in DOMAIN db
         /\ r1.ok /\ r2.ok
         /\ r1.cycle # r2.cycle
         /\ r1.now <= r2.now
         /\ IsInterval(db[r1.id])
         /\ WellFormed(db[r1.id])
         /\ db[r1.id].schedule_details.every > 0)
        => r2.now - r1.now >= IntervalSeconds(db[r1.id])

\* the apply_async() calls a step makes
Attempts == log' \ log

C26_PendingChangeOnlyIfDue ==
    /\ [](\A p \in Procs :
            pc[p] = "commit" =>
                \A t \in Fetched(p) :
                    session[p][t] # snapshot[p][t] => t \in PayloadIds(p))
    /\ [][\A p \in Procs :
            (pc[p] = "commit" /\ phase1'[p] = "nodue") =>
                /\ dispatch_payloads[p] = <<>>
                /\ session[p] = snapshot[p]
                /\ db' = db]_vars

\* a cycle that fetched rows and found none due has closed its session
\* without a commit, and the rows are as it read them
C26_Witness ==
    \E p \in Procs :
        /\ pc[p] = "dispatch"
        /\ phase1[p] = "nodue"
        /\ Fetched(p) # {}
        /\ \A t \in Fetched(p) : db[t] = snapshot[p][t]

====
